---- MODULE Spec2Model ----
(***************************************************************************)
(* Model of the move-and-slide character controller of                     *)
(* src/src/char_controller/move_and_slide.rs.                              *)
(*                                                                         *)
(* Scalars (f32 in the source) are fixed-point integers counting 1/Scale   *)
(* of a unit; every product and quotient is rounded to the nearest         *)
(* representable value, as an f32 operation is.  Vectors are pairs <<x,y>>.*)
(***************************************************************************)
EXTENDS Integers, Sequences, FiniteSets, TLC

----------------------------------------------------------------------------
(* Scalar arithmetic                                                       *)

\* Resolution of a Scalar: one unit is Scale steps (a step is 5e-5).
Scale == 20000

\* n ten-thousandths (1e-4) as a Scalar.
E4(n) == n * (Scale \div 10000)

\* n whole units as a Scalar.
Units(n) == n * Scale

Abs(a) == IF a < 0 THEN -a ELSE a

Max(a, b) == IF a >= b THEN a ELSE b

\* a / b for integers, b > 0, rounded to nearest.
RoundDiv(a, b) == (a + (b \div 2)) \div b

\* Scalar product a * b, rounded to nearest. The larger factor is split so
\* that no intermediate value leaves the 32-bit range.
MulSplit(a, b) == (a * (b \div Scale)) + RoundDiv(a * (b % Scale), Scale)

Mul(a, b) == IF Abs(a) <= Abs(b) THEN MulSplit(a, b) ELSE MulSplit(b, a)

\* Scalar quotient a / b (b # 0), rounded to nearest.
Div(a, b) == IF b > 0 THEN RoundDiv(a * Scale, b) ELSE RoundDiv((-a) * Scale, -b)

RECURSIVE SqrtSearch(_, _, _)
SqrtSearch(n, lo, hi) ==
    IF lo >= hi THEN lo
    ELSE LET mid == (lo + hi + 1) \div 2
         IN  IF mid * mid <= n THEN SqrtSearch(n, mid, hi)
             ELSE SqrtSearch(n, lo, mid - 1)

\* Square root of a natural number, rounded to nearest.
ISqrt(n) ==
    LET r == SqrtSearch(n, 0, 46340)
    IN  IF n - (r * r) > r THEN r + 1 ELSE r

----------------------------------------------------------------------------
(* Vectors                                                                 *)

ZERO == <<0, 0>>

VAdd(u, v) == <<u[1] + v[1], u[2] + v[2]>>

VSub(u, v) == <<u[1] - v[1], u[2] - v[2]>>

VNeg(u) == <<-u[1], -u[2]>>

\* s * v for a Scalar s.
VScale(s, v) == <<Mul(s, v[1]), Mul(s, v[2])>>

Dot(u, v) == Mul(u[1], v[1]) + Mul(u[2], v[2])

DistanceSquared(u, v) ==
    LET d == VSub(u, v) IN Mul(d[1], d[1]) + Mul(d[2], d[2])

Length(v) ==
    IF v[1] = 0 THEN Abs(v[2])
    ELSE IF v[2] = 0 THEN Abs(v[1])
    ELSE ISqrt((v[1] * v[1]) + (v[2] * v[2]))

\* Dir2::new_and_length: the unit direction and the length of v, or
\* ok = FALSE when v has no direction.
NewAndLength(v) ==
    LET len == Length(v)
    IN  IF len = 0
        THEN [ok |-> FALSE, dir |-> ZERO, length |-> 0]
        ELSE [ok |-> TRUE, dir |-> <<Div(v[1], len), Div(v[2], len)>>, length |-> len]

----------------------------------------------------------------------------
(* Program constants                                                       *)

DOT_EPSILON == E4(50)

MIN_DISTANCE == E4(1)

\* Scalar::INFINITY, above every squared distance the model computes.
INFINITY == 2147483647

----------------------------------------------------------------------------
(* Velocity clipping: MoveAndSlide::project_velocity                       *)

\* The cone test without the tolerance DOT_EPSILON.
InsideCone_no_epsilon(v, normals) ==
    \A i \in DOMAIN normals : Dot(v, normals[i]) >= 0

\* Case 1 of project_velocity: v is inside the cone of the normals.
InsideCone(v, normals) ==
    \A i \in DOMAIN normals : Dot(v, normals[i]) >= -DOT_EPSILON

\* A validity test that accepts every projection.
is_valid_any(projection, normals) == TRUE

\* The closure is_valid: the projection satisfies every half-space.
is_valid(projection, normals) ==
    \A i \in DOMAIN normals : Dot(projection, normals[i]) >= -DOT_EPSILON

\* The mirror image of v in the plane of n.
PlaneProjection_reflecting(v, n) == VSub(v, VScale(2 * Dot(v, n), n))

\* projection = v - (v.n) n
PlaneProjection(v, n) == VSub(v, VScale(Dot(v, n), n))

\* A test that passes only the normals v violates beyond DOT_EPSILON.
PointsInto_beyond_epsilon(v_dot_n) == v_dot_n < -DOT_EPSILON

\* if v_dot_n < 0.0: v points into the half-space behind the plane.
PointsInto(v_dot_n) == v_dot_n < 0

\* Case 2a: the loop over the normals from index i on, carrying the best
\* candidate so far.
RECURSIVE FaceProjections(_, _, _, _)
FaceProjections(v, normals, i, best) ==
    IF i > Len(normals) THEN best
    ELSE LET n == normals[i]
             v_dot_n == Dot(v, n)
             projection == PlaneProjection(v, n)
             distance_sq == DistanceSquared(v, projection)
         IN  IF PointsInto(v_dot_n)
                  /\ distance_sq < best.best_distance_sq
                  /\ is_valid(projection, normals)
             THEN FaceProjections(v, normals, i + 1,
                      [best_projection |-> projection, best_distance_sq |-> distance_sq])
             ELSE FaceProjections(v, normals, i + 1, best)

project_velocity(v, normals) ==
    IF InsideCone(v, normals) THEN v
    ELSE LET best == FaceProjections(v, normals, 1,
                         [best_projection |-> ZERO, best_distance_sq |-> INFINITY])
         IN  IF best.best_distance_sq = INFINITY THEN ZERO ELSE best.best_projection

----------------------------------------------------------------------------
(* Depenetration: MoveAndSlide::depenetrate                                *)

\* DepenetrationConfig::default()
DefaultDepenetrationConfig ==
    [depenetration_iterations |-> 16,
     max_depenetration_error |-> E4(1),
     penetration_rejection_threshold |-> E4(5000),
     skin_width |-> E4(20)]

\* The remaining penetration, forgetting the displacement found so far.
ContactError_ignoring_fixup(dist, fixup, normal) == Max(dist, 0)

\* The remaining penetration of a contact after the displacement fixup.
ContactError(dist, fixup, normal) == Max(dist - Dot(fixup, normal), 0)

\* A test that lets every contact through.
Rejected_never(dist, length_unit, config) == FALSE

\* The contact is too deep to be resolved and is skipped.
Rejected(dist, length_unit, config) ==
    dist > Mul(length_unit, config.penetration_rejection_threshold)

\* One round over the contacts from index i on; acc carries fixup and the
\* round's total_error. An intersection is a pair <<normal, dist>>.
RECURSIVE DepenetrateRound(_, _, _, _, _)
DepenetrateRound(length_unit, config, intersections, i, acc) ==
    IF i > Len(intersections) THEN acc
    ELSE LET normal == intersections[i][1]
             dist == intersections[i][2]
             error == ContactError(dist, acc.fixup, normal)
         IN  IF Rejected(dist, length_unit, config)
             THEN DepenetrateRound(length_unit, config, intersections, i + 1, acc)
             ELSE DepenetrateRound(length_unit, config, intersections, i + 1,
                      [fixup |-> VAdd(acc.fixup, VScale(error, normal)),
                       total_error |-> acc.total_error + error])

\* The rounds from number k on, starting from fixup.
RECURSIVE DepenetrateLoop(_, _, _, _, _)
DepenetrateLoop(length_unit, config, intersections, k, fixup) ==
    IF k >= config.depenetration_iterations THEN fixup
    ELSE LET r == DepenetrateRound(length_unit, config, intersections, 1,
                      [fixup |-> fixup, total_error |-> 0])
         IN  IF r.total_error < Mul(length_unit, config.max_depenetration_error)
             THEN r.fixup
             ELSE DepenetrateLoop(length_unit, config, intersections, k + 1, r.fixup)

\* A depenetration that answers an empty contact list with a push by the
\* skin width.
depenetrate_pushing_when_empty(length_unit, config, intersections) ==
    IF intersections = <<>> THEN <<0, config.skin_width>>
    ELSE DepenetrateLoop(length_unit, config, intersections, 0, ZERO)

depenetrate(length_unit, config, intersections) ==
    IF intersections = <<>> THEN ZERO
    ELSE DepenetrateLoop(length_unit, config, intersections, 0, ZERO)

\* The number of rounds depenetrate runs: the rounds from number k on,
\* starting from fixup, counted.
RECURSIVE RoundsFrom(_, _, _, _, _)
RoundsFrom(length_unit, config, intersections, k, fixup) ==
    IF k >= config.depenetration_iterations THEN k
    ELSE LET r == DepenetrateRound(length_unit, config, intersections, 1,
                      [fixup |-> fixup, total_error |-> 0])
         IN  IF r.total_error < Mul(length_unit, config.max_depenetration_error)
             THEN k + 1
             ELSE RoundsFrom(length_unit, config, intersections, k + 1, r.fixup)

DepenetrationRounds(length_unit, config, intersections) ==
    IF intersections = <<>> THEN 0
    ELSE RoundsFrom(length_unit, config, intersections, 0, ZERO)

\* impl From<&MoveAndSlideConfig> for DepenetrationConfig
DepenetrationConfigFrom(config) ==
    [depenetration_iterations |-> config.depenetration_iterations,
     max_depenetration_error |-> config.max_depenetration_error,
     penetration_rejection_threshold |-> config.penetration_rejection_threshold,
     skin_width |-> config.skin_width]

\* MoveAndSlideConfig::default()
DefaultMoveAndSlideConfig ==
    [move_and_slide_iterations |-> 4,
     depenetration_iterations |-> DefaultDepenetrationConfig.depenetration_iterations,
     max_depenetration_error |-> DefaultDepenetrationConfig.max_depenetration_error,
     penetration_rejection_threshold |->
         DefaultDepenetrationConfig.penetration_rejection_threshold,
     skin_width |-> DefaultDepenetrationConfig.skin_width * 5,
     planes |-> <<>>,
     max_planes |-> 20]

----------------------------------------------------------------------------
(* The geometry provider.  A scene is a sequence of static colliders, each *)
(* a half-plane: the solid is the set of points p with normal.p <= offset. *)
(* The moving shape is a point.                                            *)

\* Distance from the shape at position p to the surface of collider c
\* (negative inside the solid).
SignedDistance(c, p) == Dot(c.normal, p) - c.offset

NoShapeHit == [some |-> FALSE, entity |-> 0, distance |-> 0, normal1 |-> ZERO]

\* The sweep of the shape against one collider: the time of impact, or none.
\* A shape that starts inside the solid is hit at distance zero.
CastAgainst(c, p, direction, max_distance) ==
    LET sd == SignedDistance(c, p)
        approach == -Dot(direction, c.normal)
        toi == Div(sd, approach)
    IN  IF sd <= 0
        THEN [some |-> TRUE, entity |-> c.entity, distance |-> 0, normal1 |-> c.normal]
        ELSE IF approach > 0 /\ toi <= max_distance
             THEN [some |-> TRUE, entity |-> c.entity, distance |-> toi,
                   normal1 |-> c.normal]
             ELSE NoShapeHit

\* The nearest hit among the colliders from index i on, given the best so far.
RECURSIVE NearestHit(_, _, _, _, _, _)
NearestHit(scene, p, direction, max_distance, i, best) ==
    IF i > Len(scene) THEN best
    ELSE LET h == CastAgainst(scene[i], p, direction, max_distance)
         IN  IF h.some /\ (~best.some \/ h.distance < best.distance)
             THEN NearestHit(scene, p, direction, max_distance, i + 1, h)
             ELSE NearestHit(scene, p, direction, max_distance, i + 1, best)

\* SpatialQueryPipeline::cast_shape
cast_shape(scene, p, direction, max_distance) ==
    NearestHit(scene, p, direction, max_distance, 1, NoShapeHit)

\* The contacts MoveAndSlide::intersections enumerates, in order: one deepest
\* contact per collider closer than prediction_distance, with the normal
\* pointing from the collider to the shape.
RECURSIVE ContactsFrom(_, _, _, _)
ContactsFrom(scene, p, prediction_distance, i) ==
    IF i > Len(scene) THEN <<>>
    ELSE LET c == scene[i]
             sd == SignedDistance(c, p)
             rest == ContactsFrom(scene, p, prediction_distance, i + 1)
         IN  IF sd <= prediction_distance
             THEN <<[entity |-> c.entity, normal |-> c.normal, penetration |-> -sd]>>
                  \o rest
             ELSE rest

intersections(scene, p, prediction_distance) ==
    ContactsFrom(scene, p, prediction_distance, 1)

----------------------------------------------------------------------------
(* Sweeps: MoveAndSlide::cast_move and pull_back                           *)

\* A pull-back that is not floored at zero.
pull_back_unclamped(hit, dir, skin_width) ==
    LET dot == Max(Dot(dir, VNeg(hit.normal1)), DOT_EPSILON)
        skin_distance == Div(skin_width, dot)
    IN  hit.distance - skin_distance

pull_back(hit, dir, skin_width) ==
    LET dot == Max(Dot(dir, VNeg(hit.normal1)), DOT_EPSILON)
        skin_distance == Div(skin_width, dot)
    IN  Max(hit.distance - skin_distance, 0)

NoMoveHit ==
    [some |-> FALSE, entity |-> 0, distance |-> 0, collision_distance |-> 0,
     normal1 |-> ZERO]

cast_move(scene, shape_position, movement, skin_width) ==
    LET dl == NewAndLength(movement)
        direction == IF dl.ok THEN dl.dir ELSE <<Scale, 0>>
        distance == IF dl.ok THEN dl.length ELSE 0
        shape_hit == cast_shape(scene, shape_position, direction, distance)
        safe_distance == IF distance = 0 THEN 0
                         ELSE pull_back(shape_hit, direction, skin_width)
    IN  IF ~shape_hit.some THEN NoMoveHit
        ELSE [some |-> TRUE,
              entity |-> shape_hit.entity,
              distance |-> safe_distance,
              collision_distance |-> distance,
              normal1 |-> shape_hit.normal1]

\* MoveHitData::intersects
intersects(hit) == hit.collision_distance = 0

----------------------------------------------------------------------------
(* State                                                                   *)

VARIABLES
    pc,                 \* where the move_and_slide call stands
    call,               \* the arguments of the call in progress, with the world
    position,           \* local: position
    velocity,           \* local: velocity
    original_velocity,  \* local: original_velocity
    time_left,          \* local: time_left
    iteration,          \* iterations of the main loop begun so far
    sweep_hit,          \* local: sweep_hit of the current iteration
    planes,             \* local: planes of the current iteration
    penetrations,       \* local: intersections of the current iteration
    pending,            \* contacts the enumeration has still to hand out
    obs,                \* what an observer of the call has seen so far
    prim,               \* a direct call of project_velocity or depenetrate
    stop_timer,         \* the resource StopTimer
    virtual_time,       \* the resource Time<Virtual>
    timer_obs,          \* what an observer of the stop timer has seen last
    camera              \* the camera following its target, with its components

masVars ==
    <<pc, call, position, velocity, original_velocity, time_left, iteration,
      sweep_hit, planes, penetrations, pending, obs>>

appVars == <<stop_timer, virtual_time, timer_obs, camera>>

vars ==
    <<pc, call, position, velocity, original_velocity, time_left, iteration,
      sweep_hit, planes, penetrations, pending, obs, prim, stop_timer,
      virtual_time, timer_obs, camera>>

----------------------------------------------------------------------------
(* Bounds and input sets                                                   *)

\* move_and_slide_iterations ranges over 0 .. MaxIterations.
MaxIterations == 3

\* Normal sets handed directly to project_velocity have at most MaxNormals
\* members.
MaxNormals == 2

\* Contact lists handed directly to depenetrate have at most
\* MaxIntersections members.
MaxIntersections == 2

Ground == [entity |-> 1, normal |-> <<0, Scale>>, offset |-> 0]

Wall == [entity |-> 2, normal |-> <<Scale, 0>>, offset |-> 0]

\* The worlds: nothing, a floor, a floor meeting a wall.
Scenes == {<<>>, <<Ground>>, <<Ground, Wall>>}

\* PhysicsLengthUnit: the library's default and the one the game installs.
LengthUnits == {Units(1), Units(10)}

\* Start positions: in the open, within the skin of the floor, deep inside
\* the floor.
StartPositions == {<<Units(1), E4(5000)>>, <<Units(1), E4(30)>>, <<Units(1), -E4(6000)>>}

InputVelocities ==
    {ZERO, <<1, 0>>, <<Units(1), -Units(1)>>, <<-Units(1), -Units(1)>>,
     <<Units(1), -E4(40)>>, <<0, -Units(2)>>}

\* delta_time.as_secs_f32(): nothing, a sixtieth of a second, a second.
DeltaTimes == {0, E4(167), Units(1)}

\* Configurations: the default with each iteration count, and the default
\* with a thin skin, a seed plane, a small plane cap, no depenetration, a
\* seed plane above the plane cap.
Configs ==
    {[DefaultMoveAndSlideConfig EXCEPT !.move_and_slide_iterations = k] :
        k \in 0 .. MaxIterations}
    \cup {DefaultMoveAndSlideConfig,
          [DefaultMoveAndSlideConfig EXCEPT !.skin_width = E4(20)],
          [DefaultMoveAndSlideConfig EXCEPT !.planes = <<Ground.normal>>],
          [DefaultMoveAndSlideConfig EXCEPT !.max_planes = 1],
          [DefaultMoveAndSlideConfig EXCEPT !.depenetration_iterations = 0],
          [DefaultMoveAndSlideConfig EXCEPT !.planes = <<Ground.normal>>,
                                            !.max_planes = 0]}

\* The caller's on_hit: "accept" always returns true and changes nothing
\* (the game's callback), "choose" returns either answer, "steer" returns
\* true and may reverse the velocity, halve it or turn the normal.
OnHitKinds == {"accept", "choose", "steer"}

\* What on_hit may answer to hit data: whether to go on, and the normal,
\* velocity and position it leaves behind.
OnHitAnswers(kind, data) ==
    LET same == [keep |-> TRUE, normal |-> data.normal, velocity |-> data.velocity,
                 position |-> data.position]
    IN  CASE kind = "accept" -> {same}
          [] kind = "choose" -> {same, [same EXCEPT !.keep = FALSE]}
          [] kind = "steer" ->
                {same,
                 [same EXCEPT !.velocity = VNeg(data.velocity)],
                 [same EXCEPT !.velocity = VScale(E4(5000), data.velocity)],
                 [same EXCEPT !.normal = <<data.normal[2], data.normal[1]>>]}

NoCall ==
    [shape_position |-> ZERO, velocity |-> ZERO, delta_time |-> 0,
     config |-> DefaultMoveAndSlideConfig, scene |-> <<>>, length_unit |-> Units(1),
     on_hit |-> "accept"]

NoObs ==
    [sweeps |-> 0,            \* cast_move calls
     queries |-> 0,           \* overlap queries
     on_hit_calls |-> 0,      \* invocations of on_hit
     offset0 |-> ZERO,        \* the initial depenetration offset
     stopped |-> FALSE,       \* the callback returned false in this enumeration
     calls_after_stop |-> 0,  \* callback invocations after it returned false
     on_hit_after_stop |-> 0, \* on_hit invocations after the callback returned false
     planes_after_stop |-> 0, \* planes or penetrations collected after that
     trapped |-> FALSE,       \* a sweep started inside a collider
     first_trapped |-> FALSE, \* the first sweep of the call did
     sweeps_after_trap |-> 0, \* sweeps performed after such a sweep
     slides_after_trap |-> 0, \* clippings performed after such a sweep
     blocked |-> {},          \* colliders hit by a blocking, non-trapped sweep
     against |-> FALSE,       \* a clipping gave a velocity against the original
     sweeps_after_against |-> 0,
     moved |-> ZERO,          \* displacement applied after the initial depenetration
     overflow |-> FALSE,      \* a contact met the plane set already at max_planes
     clips |-> 0,             \* project_velocity calls
     clip_input |-> ZERO,     \* the velocity handed to the last of them
     last_planes |-> <<>>,    \* the plane set handed to the last of them
     time_of_impact |-> 0,    \* the time of impact of the last sweep's shape hit
     depenetrations |-> 0,    \* depenetrate calls
     max_rounds |-> 0,        \* the most rounds one of them ran
     on_hit_entity |-> 0,     \* the entity handed to the last on_hit call
     contact_entity |-> 0]    \* the collider of the contact of that call

NoPrim == [op |-> "none"]

\* The StopTimer the plugin inserts: a Once timer of zero seconds, not paused.
InsertedStopTimer ==
    [timer |-> [duration |-> 0, elapsed |-> 0, finished |-> FALSE,
                times_finished_this_tick |-> 0],
     paused |-> FALSE]

\* Time<Virtual> runs at its normal speed.
RunningTime == [relative_speed |-> 1]

NoTimerObs ==
    [last |-> "none",         \* the last event or system run
     generation |-> 0,        \* flips with every TimerEvent::Start
     frame |-> 0,             \* flips with every run of tick_pause_timer
     tick_disabled |-> FALSE] \* that run triggered PauseEvent::Disable

NoCamera == [spawned |-> FALSE]

\* The timer and the camera as the plugins leave them, with no camera spawned.
IdleApp ==
    /\ stop_timer = InsertedStopTimer
    /\ virtual_time = RunningTime
    /\ timer_obs = NoTimerObs
    /\ camera = NoCamera

----------------------------------------------------------------------------
(* MoveAndSlide::move_and_slide, step by step                              *)

Init ==
    /\ pc = "idle"
    /\ call = NoCall
    /\ position = ZERO
    /\ velocity = ZERO
    /\ original_velocity = ZERO
    /\ time_left = 0
    /\ iteration = 0
    /\ sweep_hit = NoMoveHit
    /\ planes = <<>>
    /\ penetrations = <<>>
    /\ pending = <<>>
    /\ obs = NoObs
    /\ prim = NoPrim
    /\ IdleApp

\* The sweep vector taken to be the velocity itself.
SweepVector_ignoring_time(remaining, v) == v

\* let sweep = time_left * velocity
SweepVector(remaining, v) == VScale(remaining, v)

\* A loop that never finds the movement finished.
NoMovementLeft_never(dl) == FALSE

\* The two early exits of an iteration: the sweep has no direction, or is
\* shorter than MIN_DISTANCE.
NoMovementLeft(dl) == ~dl.ok \/ dl.length < MIN_DISTANCE

\* A test that never stops the slide.
AgainstOriginal_never(v, original) == FALSE

\* The new velocity points against the original velocity.
AgainstOriginal(v, original) == Dot(v, original) <= -DOT_EPSILON

\* A loop that runs one iteration more.
LoopDone_one_late(done, config) == done > config.move_and_slide_iterations

\* The main loop has run its move_and_slide_iterations iterations.
LoopDone(done, config) == done >= config.move_and_slide_iterations

\* A push that puts the new normal in front of the others.
PushPlane_front(ps, normal) == <<normal>> \o ps

\* planes.push(normal)
PushPlane(ps, normal) == Append(ps, normal)

\* Entry: the locals position, original_velocity and time_left.
Call(shape_position, v, delta_time, config, scene, length_unit, on_hit) ==
    /\ pc = "idle"
    /\ pc' = "initial_depenetration"
    /\ call' = [shape_position |-> shape_position, velocity |-> v,
                delta_time |-> delta_time, config |-> config, scene |-> scene,
                length_unit |-> length_unit, on_hit |-> on_hit]
    /\ position' = shape_position
    /\ velocity' = v
    /\ original_velocity' = v
    /\ time_left' = delta_time
    /\ iteration' = 0
    /\ sweep_hit' = NoMoveHit
    /\ planes' = <<>>
    /\ penetrations' = <<>>
    /\ pending' = <<>>
    /\ obs' = NoObs
    /\ UNCHANGED <<prim, appVars>>

\* The initial depenetration pass: every contact within skin_width is kept.
InitialDepenetration ==
    /\ pc = "initial_depenetration"
    /\ LET config == call.config
           contacts == intersections(call.scene, position, config.skin_width)
           found == [j \in DOMAIN contacts |->
                        <<contacts[j].normal,
                          contacts[j].penetration + config.skin_width>>]
           depenetration_offset ==
               depenetrate(call.length_unit, DepenetrationConfigFrom(config), found)
       IN  /\ position' = VAdd(position, depenetration_offset)
           /\ obs' = [obs EXCEPT
                         !.queries = @ + 1,
                         !.offset0 = depenetration_offset,
                         !.depenetrations = @ + 1,
                         !.max_rounds =
                             Max(@, DepenetrationRounds(call.length_unit,
                                        DepenetrationConfigFrom(config), found))]
    /\ pc' = "sweep"
    /\ UNCHANGED <<call, velocity, original_velocity, time_left, iteration,
                   sweep_hit, planes, penetrations, pending, prim,
                   appVars>>

\* The head of an iteration of the main loop up to the overlap query: the
\* loop bound, the sweep vector, the sweep and the move up to the hit.
Sweep ==
    /\ pc = "sweep"
    /\ LET config == call.config
           sweep == SweepVector(time_left, velocity)
           dl == NewAndLength(sweep)
           vel_dir == dl.dir
           distance == dl.length
           hit == cast_move(call.scene, position, sweep, config.skin_width)
           raw == cast_shape(call.scene, position, vel_dir, distance)
           swept == [obs EXCEPT
                        !.sweeps = @ + 1,
                        !.trapped = @ \/ (raw.some /\ raw.distance = 0),
                        !.first_trapped =
                            @ \/ (obs.sweeps = 0 /\ raw.some /\ raw.distance = 0),
                        !.sweeps_after_trap = IF obs.trapped THEN @ + 1 ELSE @,
                        !.sweeps_after_against = IF obs.against THEN @ + 1 ELSE @,
                        !.time_of_impact = raw.distance,
                        !.blocked = IF raw.some /\ raw.distance > 0
                                    THEN @ \cup {raw.entity} ELSE @]
           new_position == VAdd(position, VScale(hit.distance, vel_dir))
       IN  IF LoopDone(iteration, config)
           THEN /\ pc' = "done"
                /\ UNCHANGED <<position, velocity, time_left, iteration, sweep_hit,
                               planes, penetrations, pending, obs>>
           ELSE IF NoMovementLeft(dl)
           THEN /\ pc' = "done"
                /\ iteration' = iteration + 1
                /\ UNCHANGED <<position, velocity, time_left, sweep_hit, planes,
                               penetrations, pending, obs>>
           ELSE IF ~hit.some
           THEN /\ pc' = "done"
                /\ iteration' = iteration + 1
                /\ position' = VAdd(position, sweep)
                /\ obs' = [swept EXCEPT !.moved = VAdd(@, sweep)]
                /\ UNCHANGED <<velocity, time_left, sweep_hit, planes, penetrations,
                               pending>>
           ELSE IF intersects(hit)
           THEN /\ pc' = "done"
                /\ iteration' = iteration + 1
                /\ velocity' = ZERO
                /\ sweep_hit' = hit
                /\ obs' = swept
                /\ UNCHANGED <<position, time_left, planes, penetrations, pending>>
           ELSE /\ pc' = "contacts"
                /\ iteration' = iteration + 1
                /\ sweep_hit' = hit
                /\ time_left' = time_left - Mul(time_left, Div(hit.distance, distance))
                /\ position' = new_position
                /\ planes' = config.planes
                /\ penetrations' = <<>>
                /\ pending' = intersections(call.scene, new_position,
                                            config.skin_width * 2)
                /\ obs' = [swept EXCEPT
                              !.queries = @ + 1,
                              !.stopped = FALSE,
                              !.moved = VAdd(@, VScale(hit.distance, vel_dir))]
                /\ UNCHANGED velocity
    /\ UNCHANGED <<call, original_velocity, prim,
                   appVars>>

\* The callback move_and_slide hands to intersections, run on the next
\* contact. Whatever it returns, the enumeration goes on to the contact after.
\* A depth that leaves the skin width out.
TotalPenetration_without_skin(contact_point, config) == contact_point.penetration

\* The depth stored for an accepted contact of the iteration's query.
TotalPenetration(contact_point, config) ==
    contact_point.penetration + config.skin_width

Contact ==
    /\ pc = "contacts"
    /\ pending # <<>>
    /\ LET config == call.config
           contact_point == Head(pending)
           data == [entity |-> sweep_hit.entity,
                    normal |-> contact_point.normal,
                    collision_distance |-> sweep_hit.collision_distance,
                    distance |-> sweep_hit.distance,
                    position |-> position,
                    velocity |-> velocity]
           total_penetration == TotalPenetration(contact_point, config)
           after == [obs EXCEPT !.calls_after_stop = IF obs.stopped THEN @ + 1 ELSE @]
       IN  IF Len(planes) >= config.max_planes
           THEN /\ obs' = [after EXCEPT !.stopped = TRUE, !.overflow = TRUE]
                /\ UNCHANGED <<position, velocity, planes, penetrations>>
           ELSE \E answer \in OnHitAnswers(call.on_hit, data) :
                    /\ position' = answer.position
                    /\ velocity' = answer.velocity
                    /\ planes' = IF answer.keep THEN PushPlane(planes, answer.normal)
                                 ELSE planes
                    /\ penetrations' =
                           IF answer.keep /\ total_penetration > 0
                           THEN Append(penetrations, <<answer.normal, total_penetration>>)
                           ELSE penetrations
                    /\ obs' = [after EXCEPT
                                  !.on_hit_calls = @ + 1,
                                  !.on_hit_entity = data.entity,
                                  !.contact_entity = contact_point.entity,
                                  !.on_hit_after_stop = IF obs.stopped THEN @ + 1 ELSE @,
                                  !.planes_after_stop =
                                      IF obs.stopped /\ answer.keep THEN @ + 1 ELSE @,
                                  !.stopped = @ \/ ~answer.keep,
                                  !.moved = VAdd(@, VSub(answer.position, position))]
    /\ pending' = Tail(pending)
    /\ UNCHANGED <<pc, call, original_velocity, time_left, iteration, sweep_hit,
                   prim,
                   appVars>>

\* The rest of the iteration once the enumeration is over: depenetration,
\* clipping of the velocity and the test against the original velocity.
Resolve ==
    /\ pc = "contacts"
    /\ pending = <<>>
    /\ LET config == call.config
           depenetration_offset ==
               depenetrate(call.length_unit, DepenetrationConfigFrom(config),
                           penetrations)
           clipped == project_velocity(velocity, planes)
           facing == Dot(clipped, original_velocity)
       IN  /\ position' = VAdd(position, depenetration_offset)
           /\ IF AgainstOriginal(clipped, original_velocity)
              THEN velocity' = ZERO /\ pc' = "done"
              ELSE velocity' = clipped /\ pc' = "sweep"
           /\ obs' = [obs EXCEPT
                         !.against = @ \/ facing < -DOT_EPSILON,
                         !.slides_after_trap = IF obs.trapped THEN @ + 1 ELSE @,
                         !.clips = @ + 1,
                         !.depenetrations = @ + 1,
                         !.max_rounds =
                             Max(@, DepenetrationRounds(call.length_unit,
                                        DepenetrationConfigFrom(config), penetrations)),
                         !.clip_input = velocity,
                         !.last_planes = planes,
                         !.moved = VAdd(@, depenetration_offset)]
    /\ UNCHANGED <<call, original_velocity, time_left, iteration, sweep_hit, planes,
                   penetrations, pending, prim,
                   appVars>>

\* The MoveAndSlideOutput the call in state "done" hands back.
Output == [position |-> position, projected_velocity |-> velocity]

\* The return to the caller: the locals are gone, nothing of the call is kept.
Return ==
    /\ pc = "done"
    /\ pc' = "idle"
    /\ call' = NoCall
    /\ position' = ZERO
    /\ velocity' = ZERO
    /\ original_velocity' = ZERO
    /\ time_left' = 0
    /\ iteration' = 0
    /\ sweep_hit' = NoMoveHit
    /\ planes' = <<>>
    /\ penetrations' = <<>>
    /\ pending' = <<>>
    /\ obs' = NoObs
    /\ UNCHANGED <<prim, appVars>>

\* A caller invokes move_and_slide with some arguments in some world.
Invoke ==
    /\ pc = "idle"
    /\ \E shape_position \in StartPositions, v \in InputVelocities,
          delta_time \in DeltaTimes, config \in Configs, scene \in Scenes,
          length_unit \in LengthUnits, on_hit \in OnHitKinds :
            Call(shape_position, v, delta_time, config, scene, length_unit, on_hit)

Next ==
    \/ Invoke
    \/ InitialDepenetration
    \/ Sweep
    \/ Contact
    \/ Resolve
    \/ Return

Spec == Init /\ [][Next]_vars

----------------------------------------------------------------------------
(* Direct calls of the primitives project_velocity and depenetrate         *)

IdleEngine ==
    /\ pc = "idle"
    /\ call = NoCall
    /\ position = ZERO
    /\ velocity = ZERO
    /\ original_velocity = ZERO
    /\ time_left = 0
    /\ iteration = 0
    /\ sweep_hit = NoMoveHit
    /\ planes = <<>>
    /\ penetrations = <<>>
    /\ pending = <<>>
    /\ obs = NoObs

\* All sequences of at most k members of S.
SeqsUpTo(S, k) == UNION {[1 .. n -> S] : n \in 0 .. k}

Normals ==
    {<<0, Scale>>, <<Scale, 0>>, <<0, -Scale>>, <<-Scale, 0>>,
     <<E4(6000), E4(8000)>>, <<-E4(6000), E4(8000)>>}

ClipComponents == {-Units(1), -E4(40), 0, E4(40), Units(1)}

\* Every pair of components, and a velocity that goes DOT_EPSILON into the
\* floor and further into a slope.
ClipVelocities == (ClipComponents \X ClipComponents) \cup {<<-167, -DOT_EPSILON>>}

InitClip ==
    /\ IdleEngine
    /\ IdleApp
    /\ prim \in {[op |-> "project_velocity", v |-> v, normals |-> ns,
                  returned |-> FALSE, out |-> ZERO, of_result |-> FALSE] :
                    v \in ClipVelocities, ns \in SeqsUpTo(Normals, MaxNormals)}

\* The caller receives project_velocity(v, normals).
ProjectVelocity ==
    /\ prim.op = "project_velocity"
    /\ ~prim.returned
    /\ prim' = [prim EXCEPT !.returned = TRUE,
                            !.out = project_velocity(prim.v, prim.normals)]
    /\ UNCHANGED <<masVars, appVars>>

\* The caller hands the velocity it received to project_velocity again, with
\* the same normals.
ProjectResult ==
    /\ prim.op = "project_velocity"
    /\ prim.returned
    /\ ~prim.of_result
    /\ prim' = [prim EXCEPT !.v = prim.out, !.returned = FALSE, !.out = ZERO,
                            !.of_result = TRUE]
    /\ UNCHANGED <<masVars, appVars>>

NextClip == ProjectVelocity \/ ProjectResult

SpecClip == InitClip /\ [][NextClip]_vars

Penetrations == {-E4(50), E4(15), E4(5000), E4(6000)}

DepenetrationConfigs ==
    {DefaultDepenetrationConfig,
     DepenetrationConfigFrom(DefaultMoveAndSlideConfig),
     [DefaultDepenetrationConfig EXCEPT !.depenetration_iterations = 1]}

InitDepen ==
    /\ IdleEngine
    /\ IdleApp
    /\ prim \in {[op |-> "depenetrate", length_unit |-> lu, config |-> cfg,
                  intersections |-> ints, returned |-> FALSE, out |-> ZERO] :
                    lu \in LengthUnits, cfg \in DepenetrationConfigs,
                    ints \in SeqsUpTo(Normals \X Penetrations, MaxIntersections)}

\* The caller receives depenetrate(config, intersections).
Depenetrate ==
    /\ prim.op = "depenetrate"
    /\ ~prim.returned
    /\ prim' = [prim EXCEPT
                   !.returned = TRUE,
                   !.out = depenetrate(prim.length_unit, prim.config,
                                       prim.intersections)]
    /\ UNCHANGED <<masVars, appVars>>

NextDepen == Depenetrate

SpecDepen == InitDepen /\ [][NextDepen]_vars

----------------------------------------------------------------------------
(* The stop timer: time.rs                                                 *)

\* Durations handed to TimerEvent::Start range over 0 .. MaxDuration, in
\* units of the shortest frame.
MaxDuration == 2

\* Time<Real>::delta() ranges over 0 .. MaxDelta; it is 0 on the first frame
\* only, and positive when real time advances.
MaxDelta == 2

\* StopTimer::tick on a TimerMode::Once timer that is not itself paused: a
\* finished timer stays as it is, a running one finishes when the elapsed
\* time reaches the duration and is clamped to it.
tick(timer, delta) ==
    IF timer.finished
    THEN [timer EXCEPT !.times_finished_this_tick = 0]
    ELSE IF timer.elapsed + delta >= timer.duration
         THEN [timer EXCEPT !.elapsed = timer.duration, !.finished = TRUE,
                            !.times_finished_this_tick = 1]
         ELSE [timer EXCEPT !.elapsed = timer.elapsed + delta,
                            !.times_finished_this_tick = 0]

\* A timer that never reports having finished.
just_finished_never(timer) == FALSE

just_finished(timer) == timer.times_finished_this_tick > 0

set_duration(timer, duration) == [timer EXCEPT !.duration = duration]

reset(timer) ==
    [timer EXCEPT !.elapsed = 0, !.finished = FALSE,
                  !.times_finished_this_tick = 0]

\* The observer handle_pause_event.
handle_pause_event(event, time) ==
    CASE event = "Toggle" ->
             [time EXCEPT !.relative_speed = IF @ = 0 THEN 1 ELSE 0]
      [] event = "Enable" -> [time EXCEPT !.relative_speed = 0]
      [] event = "Disable" -> [time EXCEPT !.relative_speed = 1]

\* The system tick_pause_timer, run once a frame with the frame's real delta.
tick_pause_timer(delta) ==
    /\ IF stop_timer.paused
       THEN /\ UNCHANGED <<stop_timer, virtual_time>>
            /\ timer_obs' = [timer_obs EXCEPT !.last = "Tick", !.frame = 1 - @,
                                              !.tick_disabled = FALSE]
       ELSE LET ticked == tick(stop_timer.timer, delta)
            IN  /\ stop_timer' = [stop_timer EXCEPT !.timer = ticked]
                /\ virtual_time' = IF just_finished(ticked)
                                   THEN handle_pause_event("Disable", virtual_time)
                                   ELSE virtual_time
                /\ timer_obs' = [timer_obs EXCEPT
                                    !.last = "Tick", !.frame = 1 - @,
                                    !.tick_disabled = just_finished(ticked)]
    /\ UNCHANGED <<masVars, prim, camera>>

\* The observer timer_events, with the PauseEvent it triggers.
timer_events(event) ==
    /\ CASE event.kind = "Start" ->
               LET duration == stop_timer.timer.duration
               IN  /\ stop_timer' =
                          [timer |-> reset(set_duration(stop_timer.timer,
                                                        Max(event.time, duration))),
                           paused |-> FALSE]
                   /\ virtual_time' = handle_pause_event("Enable", virtual_time)
                   /\ timer_obs' = [timer_obs EXCEPT !.last = "Start",
                                                     !.generation = 1 - @,
                                                     !.tick_disabled = FALSE]
         [] event.kind = "Stop" ->
               /\ stop_timer' = [timer |-> set_duration(stop_timer.timer, 0),
                                 paused |-> TRUE]
               /\ virtual_time' = handle_pause_event("Disable", virtual_time)
               /\ timer_obs' = [timer_obs EXCEPT !.last = "Stop",
                                                 !.tick_disabled = FALSE]
         [] event.kind = "Pause" ->
               /\ stop_timer' = [stop_timer EXCEPT !.paused = TRUE]
               /\ timer_obs' = [timer_obs EXCEPT !.last = "Pause",
                                                 !.tick_disabled = FALSE]
               /\ UNCHANGED virtual_time
         [] event.kind = "Unpause" ->
               /\ stop_timer' = [stop_timer EXCEPT !.paused = FALSE]
               /\ timer_obs' = [timer_obs EXCEPT !.last = "Unpause",
                                                 !.tick_disabled = FALSE]
               /\ UNCHANGED virtual_time
    /\ UNCHANGED <<masVars, prim, camera>>

TimerEvents ==
    {[kind |-> "Start", time |-> d] : d \in 0 .. MaxDuration}
        \cup {[kind |-> k] : k \in {"Stop", "Pause", "Unpause"}}

\* Something triggers a TimerEvent.
TriggerTimerEvent == \E event \in TimerEvents : timer_events(event)

\* Something triggers PauseEvent::Toggle.
TriggerPauseToggle ==
    /\ virtual_time' = handle_pause_event("Toggle", virtual_time)
    /\ timer_obs' = [timer_obs EXCEPT !.last = "Toggle", !.tick_disabled = FALSE]
    /\ UNCHANGED <<masVars, prim, stop_timer, camera>>

\* A frame in which real time has not advanced.
FirstFrame == tick_pause_timer(0)

\* A frame in which real time has advanced.
Frame == \E delta \in 1 .. MaxDelta : tick_pause_timer(delta)

InitTimer ==
    /\ IdleEngine
    /\ prim = NoPrim
    /\ IdleApp

NextTimer == TriggerTimerEvent \/ TriggerPauseToggle \/ FirstFrame \/ Frame

SpecTimer == InitTimer /\ [][NextTimer]_vars

\* tick_pause_timer is a system of the Update schedule: it runs every frame,
\* and real time advances between frames.
SpecTimerLive == SpecTimer /\ WF_vars(Frame)

----------------------------------------------------------------------------
(* The camera following its target: camera.rs                              *)

\* ClampFlags
MIN_Y == 1
MIN_X == 2
MAX_Y == 4
MAX_X == 8
ALL == 15

\* FollowAxes
HORIZONTAL == 1
VERTICAL == 2

\* Coordinates of the target and of the clamp range over 0 .. MaxCoord.
MaxCoord == 2

Coords == 0 .. MaxCoord

\* ClampFlags::has and FollowAxes::has, for a mask rhs of one bit.
has(bits, rhs) == (bits \div rhs) % 2 = 1

\* FollowAxes::toggle: self.0 ^= axis, for an axis of one bit.
toggle(bits, axis) == IF has(bits, axis) THEN bits - axis ELSE bits + axis

Min(a, b) == IF a <= b THEN a ELSE b

\* The ClampPosition the camera is spawned with: the whole level, or its
\* lower left part.
SpawnedClamps ==
    {[min |-> <<0, 0>>, max |-> <<MaxCoord, MaxCoord>>],
     [min |-> <<0, 0>>, max |-> <<1, 1>>]}

\* The system update_clamp for the one camera and its target.
update_clamp(clamp_pos, flags, axes, target_xf) ==
    LET min_x == IF has(axes, HORIZONTAL) /\ has(flags, MIN_X)
                 THEN Max(clamp_pos.min[1], target_xf[1]) ELSE clamp_pos.min[1]
        max_x == IF has(axes, HORIZONTAL) /\ has(flags, MAX_X)
                 THEN Min(clamp_pos.max[1], target_xf[1]) ELSE clamp_pos.max[1]
        min_y == IF has(axes, VERTICAL) /\ has(flags, MIN_Y)
                 THEN Max(clamp_pos.min[2], target_xf[2]) ELSE clamp_pos.min[2]
        max_y == IF has(axes, VERTICAL) /\ has(flags, MAX_Y)
                 THEN Min(clamp_pos.max[2], target_xf[2]) ELSE clamp_pos.max[2]
    IN  [min |-> <<min_x, min_y>>, max |-> <<max_x, max_y>>]

\* f32::clamp, defined for min <= max and a panic otherwise.
clamp(x, min, max) == Max(min, Min(x, max))

\* The axes on which follow_target calls clamp with min > max.
InvalidRanges(clamp_pos, axes) ==
    {i \in 1 .. 2 : /\ has(axes, IF i = 1 THEN HORIZONTAL ELSE VERTICAL)
                    /\ clamp_pos.min[i] > clamp_pos.max[i]}

\* The system follow_target for the one camera and its target.
follow_target(transform, clamp_pos, axes, xf) ==
    <<IF has(axes, HORIZONTAL)
      THEN clamp(xf[1], clamp_pos.min[1], clamp_pos.max[1]) ELSE transform[1],
      IF has(axes, VERTICAL)
      THEN clamp(xf[2], clamp_pos.min[2], clamp_pos.max[2]) ELSE transform[2]>>

\* The target moves between two frames.
MoveTarget ==
    /\ camera.spawned
    /\ camera.stage = "update_clamp"
    /\ ~camera.panicked
    /\ \E p \in (Coords \X Coords) \ {camera.target} :
           camera' = [camera EXCEPT !.target = p]
    /\ UNCHANGED <<masVars, prim, stop_timer, virtual_time, timer_obs>>

\* Something toggles one of the axes the target is followed on.
ToggleAxis ==
    /\ camera.spawned
    /\ camera.stage = "update_clamp"
    /\ ~camera.panicked
    /\ \E axis \in {HORIZONTAL, VERTICAL} :
           camera' = [camera EXCEPT !.axes = toggle(@, axis)]
    /\ UNCHANGED <<masVars, prim, stop_timer, virtual_time, timer_obs>>

\* PostUpdate, first system of the chain.
UpdateClamp ==
    /\ camera.spawned
    /\ camera.stage = "update_clamp"
    /\ ~camera.panicked
    /\ camera' = [camera EXCEPT
                     !.clamp_pos = update_clamp(@, camera.flags, camera.axes,
                                                camera.target),
                     !.stage = "follow_target"]
    /\ UNCHANGED <<masVars, prim, stop_timer, virtual_time, timer_obs>>

\* PostUpdate, second system of the chain.
FollowTarget ==
    /\ camera.spawned
    /\ camera.stage = "follow_target"
    /\ IF InvalidRanges(camera.clamp_pos, camera.axes) # {}
       THEN camera' = [camera EXCEPT !.panicked = TRUE]
       ELSE camera' = [camera EXCEPT
                          !.transform = follow_target(@, camera.clamp_pos,
                                                      camera.axes, camera.target),
                          !.stage = "update_clamp"]
    /\ UNCHANGED <<masVars, prim, stop_timer, virtual_time, timer_obs>>

InitCamera ==
    /\ IdleEngine
    /\ prim = NoPrim
    /\ stop_timer = InsertedStopTimer
    /\ virtual_time = RunningTime
    /\ timer_obs = NoTimerObs
    /\ camera \in {[spawned |-> TRUE, clamp_pos |-> c, flags |-> f, axes |-> a,
                     target |-> <<0, 0>>, transform |-> <<0, 0>>,
                     stage |-> "update_clamp", panicked |-> FALSE] :
                       c \in SpawnedClamps, f \in 0 .. ALL,
                       a \in {HORIZONTAL, VERTICAL}}

NextCamera == MoveTarget \/ ToggleAxis \/ UpdateClamp \/ FollowTarget

SpecCamera == InitCamera /\ [][NextCamera]_vars

----------------------------------------------------------------------------
(* Properties                                                              *)

\* v satisfies the half-space of every normal within DOT_EPSILON.
SatisfiesAll(v, normals) ==
    \A i \in DOMAIN normals : Dot(v, normals[i]) >= -DOT_EPSILON

Cross(u, v) == Mul(u[1], v[2]) - Mul(u[2], v[1])

NonParallel(normals) ==
    \A i, j \in DOMAIN normals : i < j => Cross(normals[i], normals[j]) # 0

Returned(op) == prim.op = op /\ prim.returned

EmptySceneDone == pc = "done" /\ call.scene = <<>>

FullSweep == VScale(call.delta_time, call.velocity)

\* C1 as stated: with an empty scene the call returns the input position
\* plus velocity * delta_time and the input velocity, for every velocity,
\* delta_time and config.
C1_NoObstacleAlways ==
    EmptySceneDone =>
        /\ velocity = call.velocity
        /\ position = VAdd(call.shape_position, FullSweep)

\* C1 as amended: with an empty scene the call returns the input velocity; it
\* returns the input position plus velocity * delta_time when at least one
\* iteration is configured and the sweep velocity * delta_time is at least
\* MIN_DISTANCE long, and the input position itself otherwise.
C1_NoObstacle ==
    EmptySceneDone =>
        /\ velocity = call.velocity
        /\ position =
              IF call.config.move_and_slide_iterations >= 1
                 /\ Length(FullSweep) >= MIN_DISTANCE
              THEN VAdd(call.shape_position, FullSweep)
              ELSE call.shape_position

C1_Witness ==
    /\ EmptySceneDone
    /\ obs.sweeps = 1
    /\ position # call.shape_position

\* C2: a call whose first sweep starts inside a collider (time of impact
\* zero) returns zero velocity and performs no further sweep and no slide.
C2_TrappedStops ==
    (pc = "done" /\ obs.first_trapped) =>
        /\ velocity = ZERO
        /\ obs.sweeps = 1
        /\ obs.slides_after_trap = 0

\* C3 as stated: project_velocity of (1,-1) against the normals (0,1) and
\* (1,0) returns (0,0).
C3_CornerReturnsZero ==
    (/\ Returned("project_velocity")
     /\ prim.v = <<Units(1), -Units(1)>>
     /\ prim.normals = <<<<0, Scale>>, <<Scale, 0>>>>)
        => prim.out = ZERO

\* C3 as amended: project_velocity of (1,-1) against the normals (0,1) and
\* (1,0) returns (1,0), the projection onto the plane of (0,1), which
\* satisfies both half-spaces; it is the velocity (-1,-1), moving into both
\* planes, that the same normals clip to (0,0).
C3_Corner ==
    (/\ Returned("project_velocity")
     /\ prim.normals = <<<<0, Scale>>, <<Scale, 0>>>>)
        => /\ prim.v = <<Units(1), -Units(1)>> => prim.out = <<Units(1), 0>>
           /\ prim.v = <<-Units(1), -Units(1)>> => prim.out = ZERO

C3_Witness ==
    /\ Returned("project_velocity")
    /\ prim.v = <<Units(1), -Units(1)>>
    /\ prim.normals = <<<<0, Scale>>, <<Scale, 0>>>>
    /\ prim.out # ZERO

\* C4: for at most two non-parallel normals, the vector project_velocity
\* returns has a dot product of at least -DOT_EPSILON with every normal.
C4_ClipperFeasible ==
    (/\ Returned("project_velocity")
     /\ Len(prim.normals) <= 2
     /\ NonParallel(prim.normals))
        => \A i \in DOMAIN prim.normals :
               Dot(prim.out, prim.normals[i]) >= -DOT_EPSILON

C4_Witness ==
    /\ Returned("project_velocity")
    /\ Len(prim.normals) = 2
    /\ NonParallel(prim.normals)
    /\ ~SatisfiesAll(prim.v, prim.normals)
    /\ prim.out # ZERO

\* C5: a velocity that satisfies every normal of the set (the empty set
\* included) is returned by project_velocity unchanged.
C5_ClipperNoOp ==
    (Returned("project_velocity") /\ SatisfiesAll(prim.v, prim.normals))
        => prim.out = prim.v

C5_Witness ==
    /\ Returned("project_velocity")
    /\ SatisfiesAll(prim.v, prim.normals)
    /\ \E i \in DOMAIN prim.normals : Dot(prim.v, prim.normals[i]) < 0
    /\ prim.out = prim.v

\* C6: a call with zero velocity returns zero velocity and the input position
\* plus the initial depenetration offset; it performs no sweep, never invokes
\* on_hit and applies no further displacement.
C6_ZeroVelocity ==
    (pc = "done" /\ call.velocity = ZERO) =>
        /\ velocity = ZERO
        /\ position = VAdd(call.shape_position, obs.offset0)
        /\ obs.sweeps = 0
        /\ obs.on_hit_calls = 0
        /\ obs.moved = ZERO

C6_Witness ==
    /\ pc = "done"
    /\ call.velocity = ZERO
    /\ call.delta_time > 0
    /\ call.config.move_and_slide_iterations > 0
    /\ obs.offset0 # ZERO

\* C7: for the single contact (normal (0,1), penetration 0.5) and the default
\* depenetration config, the dot product of the returned displacement with the
\* normal differs from 0.5 by less than max_depenetration_error.
C7_DepenetrationConverges ==
    (/\ Returned("depenetrate")
     /\ prim.config = DefaultDepenetrationConfig
     /\ prim.intersections = <<<<<<0, Scale>>, E4(5000)>>>>)
        => Abs(Dot(prim.out, <<0, Scale>>) - E4(5000))
               < DefaultDepenetrationConfig.max_depenetration_error

C7_Witness ==
    /\ Returned("depenetrate")
    /\ prim.config = DefaultDepenetrationConfig
    /\ prim.intersections = <<<<<<0, Scale>>, E4(5000)>>>>
    /\ prim.out = <<0, E4(5000)>>

\* The numeric tolerance granted to C8.
SkinTolerance == E4(2)

\* C8: after a call in which a sweep reported a blocking (non-trapped) hit,
\* the returned position is at least skin_width (up to tolerance) away from
\* the collider that was hit. Stated for calls with the game's own callback,
\* which accepts every contact and changes nothing, and the default
\* depenetration budget and plane cap.
C8_SkinWidthKept ==
    (/\ pc = "done"
     /\ call.on_hit = "accept"
     /\ call.config.depenetration_iterations =
            DefaultMoveAndSlideConfig.depenetration_iterations
     /\ call.config.max_planes = DefaultMoveAndSlideConfig.max_planes)
        => \A i \in DOMAIN call.scene :
               call.scene[i].entity \in obs.blocked =>
                   SignedDistance(call.scene[i], position)
                       >= call.config.skin_width - SkinTolerance

\* C9: whenever clipping gives a velocity whose dot product with the original
\* velocity is below -DOT_EPSILON, the call sets the velocity to zero and
\* ends without another sweep.
C9_AntiJitter ==
    obs.against =>
        /\ pc = "done"
        /\ velocity = ZERO
        /\ obs.sweeps_after_against = 0

C9_Witness ==
    /\ obs.against
    /\ pc = "done"
    /\ original_velocity # ZERO

\* C10: once the callback given to intersections has returned false, it is
\* not invoked again for a later contact of that enumeration, on_hit is not
\* invoked again, and no further plane or penetration is collected.
C10_EnumerationStops ==
    /\ obs.calls_after_stop = 0
    /\ obs.on_hit_after_stop = 0
    /\ obs.planes_after_stop = 0

\* C11: a call in which a contact found the plane set already holding
\* max_planes normals is aborted and returns zero projected_velocity.
C11_OverflowZeroes ==
    (pc = "done" /\ obs.overflow) => velocity = ZERO

\* The iteration has enumerated its contacts: planes is the plane set about
\* to be handed to project_velocity.
PlanesHandedOver == pc = "contacts" /\ pending = <<>>

\* C12: the plane set handed to project_velocity holds at most max_planes
\* normals, whatever the seed planes of the config and the contacts found.
C12_PlaneCap ==
    PlanesHandedOver => Len(planes) <= call.config.max_planes

\* s is an initial segment of t.
IsPrefix(s, t) == Len(s) <= Len(t) /\ SubSeq(t, 1, Len(s)) = s

\* C13: throughout the contact enumeration of every iteration the plane set
\* starts with the seed planes config.planes, in their order and with their
\* values, and a step of the enumeration leaves every normal already in the
\* set in place and unchanged.
C13_SeedPlanesKept ==
    [][/\ pc' = "contacts" => IsPrefix(call'.config.planes, planes')
       /\ (pc = "contacts" /\ pc' = "contacts") => IsPrefix(planes, planes')]_vars

C13_Witness ==
    /\ PlanesHandedOver
    /\ call.config.planes # <<>>
    /\ Len(planes) > Len(call.config.planes)
    /\ planes[Len(planes)] # planes[1]

\* The projections of v a set of planes offers: v itself and its projection
\* onto the plane of each normal.
ProjectionsOnto(v, normals) ==
    {v} \cup {VSub(v, VScale(Dot(v, normals[i]), normals[i])) : i \in DOMAIN normals}

\* C14 as stated: the returned projected_velocity is zero, or it is a
\* projection of the original input velocity onto the last plane set used for
\* clipping and satisfies every normal of that set within DOT_EPSILON.
C14_ProjectionOfInput ==
    pc = "done" =>
        \/ velocity = ZERO
        \/ /\ velocity \in ProjectionsOnto(call.velocity, obs.last_planes)
           /\ SatisfiesAll(velocity, obs.last_planes)

\* C14 as amended: the returned projected_velocity is zero, or it satisfies
\* every normal of the last plane set used for clipping within DOT_EPSILON and
\* is a projection onto that set of the velocity that entered the last
\* clipping (the input velocity as earlier iterations clipped it and as
\* on_hit left it); without any clipping it is the input velocity.
C14_ProjectionOfClipInput ==
    pc = "done" =>
        IF obs.clips = 0 THEN velocity = call.velocity
        ELSE \/ velocity = ZERO
             \/ /\ velocity \in ProjectionsOnto(obs.clip_input, obs.last_planes)
                /\ SatisfiesAll(velocity, obs.last_planes)

C14_Witness ==
    /\ pc = "done"
    /\ obs.clips >= 2
    /\ velocity # ZERO
    /\ velocity # obs.clip_input
    /\ obs.clip_input # call.velocity

\* C15: the hit cast_move returns carries in collision_distance the time of
\* impact of the sweep's shape hit, and intersects() holds exactly when that
\* time of impact is zero (the shape started the cast inside a collider).
C15_CollisionDistanceIsTimeOfImpact ==
    sweep_hit.some =>
        /\ sweep_hit.collision_distance = obs.time_of_impact
        /\ intersects(sweep_hit) <=> (obs.time_of_impact = 0)

\* The resources a call has used so far stay within what its config allows.
WithinBudget ==
    /\ obs.sweeps <= call.config.move_and_slide_iterations
    /\ obs.queries <= call.config.move_and_slide_iterations + 1
    /\ obs.depenetrations <= call.config.move_and_slide_iterations + 1
    /\ obs.max_rounds <= call.config.depenetration_iterations

\* The work a call has left: its remaining iterations, each worth a sweep,
\* a resolution and a callback per collider, and what is left of the
\* iteration in progress.
Variant ==
    CASE pc = "initial_depenetration" ->
             call.config.move_and_slide_iterations * (Len(call.scene) + 3) + 2
      [] pc = "sweep" ->
             (call.config.move_and_slide_iterations - iteration)
                 * (Len(call.scene) + 3) + 1
      [] pc = "contacts" ->
             (call.config.move_and_slide_iterations - iteration)
                 * (Len(call.scene) + 3) + Len(pending) + 2
      [] OTHER -> 0

\* C17: every call terminates within its budget: each step of a call lowers
\* the work it has left, which never goes below zero, and at every moment the
\* call has performed at most move_and_slide_iterations sweeps, at most
\* move_and_slide_iterations + 1 overlap queries and at most
\* move_and_slide_iterations + 1 depenetration passes of at most
\* depenetration_iterations rounds each.
C17_TerminatesWithinBudget ==
    [][pc' # "idle" =>
          /\ WithinBudget'
          /\ Variant' >= 0
          /\ pc # "idle" => Variant' < Variant]_vars

C17_Witness ==
    /\ pc = "done"
    /\ obs.overflow
    /\ obs.sweeps = call.config.move_and_slide_iterations
    /\ obs.queries = call.config.move_and_slide_iterations + 1
    /\ obs.depenetrations = call.config.move_and_slide_iterations + 1
    /\ obs.max_rounds >= 1

\* The single-plane projection of v onto the plane of n.
SinglePlane(v, n) == VSub(v, VScale(Dot(v, n), n))

\* The valid single-plane projections of v over the normals whose dot
\* product with v is below limit.
ValidProjections(v, normals, limit) ==
    {SinglePlane(v, normals[i]) :
        i \in {j \in DOMAIN normals :
                  /\ Dot(v, normals[j]) < limit
                  /\ SatisfiesAll(SinglePlane(v, normals[j]), normals)}}

\* out is a member of candidates nearest to v; zero when there is none.
NearestOf(out, v, candidates) ==
    IF candidates = {} THEN out = ZERO
    ELSE /\ out \in candidates
         /\ \A q \in candidates : DistanceSquared(v, out) <= DistanceSquared(v, q)

ClippedCall == Returned("project_velocity") /\ ~SatisfiesAll(prim.v, prim.normals)

\* C18 as stated: when the velocity violates a normal, project_velocity
\* returns the nearest to the velocity of its valid single-plane projections
\* taken over the normals n with velocity.n < -DOT_EPSILON.
C18_NearestOverViolated ==
    ClippedCall =>
        NearestOf(prim.out, prim.v,
                  ValidProjections(prim.v, prim.normals, -DOT_EPSILON))

\* C18 as amended: when the velocity violates a normal, project_velocity
\* returns the nearest to the velocity of its valid single-plane projections
\* taken over the normals n with velocity.n < 0, those the velocity violates
\* by less than DOT_EPSILON included.
C18_NearestOverPointedInto ==
    ClippedCall =>
        NearestOf(prim.out, prim.v, ValidProjections(prim.v, prim.normals, 0))

C18_Witness ==
    /\ ClippedCall
    /\ prim.out # ZERO
    /\ prim.out \notin ValidProjections(prim.v, prim.normals, -DOT_EPSILON)
    /\ \E q \in ValidProjections(prim.v, prim.normals, 0) :
           DistanceSquared(prim.v, prim.out) < DistanceSquared(prim.v, q)

\* C19 as stated: when the velocity violates a normal, project_velocity
\* returns zero exactly when none of the single-plane projections of the
\* velocity satisfies all normals within DOT_EPSILON, and a non-zero result
\* satisfies all normals.
C19_ZeroIffNoProjection ==
    ClippedCall =>
        /\ prim.out = ZERO <=>
               (\A i \in DOMAIN prim.normals :
                    ~SatisfiesAll(SinglePlane(prim.v, prim.normals[i]), prim.normals))
        /\ prim.out # ZERO => SatisfiesAll(prim.out, prim.normals)

\* C19 as amended: when the velocity violates a normal, project_velocity
\* returns zero whenever no single-plane projection onto a normal the
\* velocity points into satisfies all normals within DOT_EPSILON; when it
\* returns zero although there is one, zero is itself such a projection; and
\* a non-zero result satisfies all normals.
C19_ZeroWhenNoProjection ==
    ClippedCall =>
        /\ ValidProjections(prim.v, prim.normals, 0) = {} => prim.out = ZERO
        /\ prim.out = ZERO =>
               \/ ValidProjections(prim.v, prim.normals, 0) = {}
               \/ ZERO \in ValidProjections(prim.v, prim.normals, 0)
        /\ prim.out # ZERO => SatisfiesAll(prim.out, prim.normals)

C19_Witness ==
    /\ ClippedCall
    /\ Len(prim.normals) = 2
    /\ ValidProjections(prim.v, prim.normals, 0) = {}
    /\ prim.out = ZERO

\* The reference Gauss-Seidel relaxation.  The accepted contacts, in input
\* order:
RefAccepted(length_unit, config, contacts) ==
    SelectSeq(contacts,
              LAMBDA c : c[2] <= Mul(config.penetration_rejection_threshold, length_unit))

\* The displacement and the total error after the first n contacts of a round
\* that starts from displacement start.
RECURSIVE RefVisit(_, _, _)
RefVisit(contacts, n, start) ==
    IF n = 0 THEN [displacement |-> start, total |-> 0]
    ELSE LET before == RefVisit(contacts, n - 1, start)
             normal == contacts[n][1]
             error == Max(0, contacts[n][2] - Dot(before.displacement, normal))
         IN  [displacement |-> VAdd(before.displacement, VScale(error, normal)),
              total |-> before.total + error]

\* The displacement returned with rounds_left rounds of budget left.
RECURSIVE RefRelax(_, _, _, _, _)
RefRelax(length_unit, config, contacts, rounds_left, displacement) ==
    IF rounds_left = 0 THEN displacement
    ELSE LET round == RefVisit(contacts, Len(contacts), displacement)
         IN  IF round.total < Mul(config.max_depenetration_error, length_unit)
             THEN round.displacement
             ELSE RefRelax(length_unit, config, contacts, rounds_left - 1,
                           round.displacement)

RefDepenetrate(length_unit, config, contacts) ==
    RefRelax(length_unit, config, RefAccepted(length_unit, config, contacts),
             config.depenetration_iterations, ZERO)

\* C20: depenetrate returns what the reference Gauss-Seidel relaxation
\* returns: from zero displacement, for at most depenetration_iterations
\* rounds over the accepted contacts in input order, error = max(0,
\* penetration - displacement.normal) added to the round's total and error *
\* normal to the displacement, stopping after the first round whose total is
\* below max_depenetration_error * length_unit.
C20_GaussSeidel ==
    Returned("depenetrate") =>
        prim.out = RefDepenetrate(prim.length_unit, prim.config, prim.intersections)

\* A call with two accepted contacts that uses up its rounds without
\* converging: a further round would still find an error above the target.
C20_Witness ==
    /\ Returned("depenetrate")
    /\ Len(prim.intersections) = 2
    /\ Len(RefAccepted(prim.length_unit, prim.config, prim.intersections)) = 2
    /\ prim.config.depenetration_iterations > 1
    /\ RefVisit(RefAccepted(prim.length_unit, prim.config, prim.intersections),
                2, prim.out).total
           >= Mul(prim.config.max_depenetration_error, prim.length_unit)
    /\ prim.out # ZERO

\* C21: depenetrate skips the contacts whose penetration exceeds
\* penetration_rejection_threshold * length_unit: it returns what it returns
\* for the input with those contacts removed, and zero when every contact is
\* rejected.
C21_RejectedSkipped ==
    Returned("depenetrate") =>
        LET kept == RefAccepted(prim.length_unit, prim.config, prim.intersections)
        IN  /\ prim.out = depenetrate(prim.length_unit, prim.config, kept)
            /\ kept = <<>> => prim.out = ZERO

\* A call with one contact above the threshold and one below that moves.
C21_Witness ==
    /\ Returned("depenetrate")
    /\ Len(prim.intersections) = 2
    /\ Len(RefAccepted(prim.length_unit, prim.config, prim.intersections)) = 1
    /\ prim.out # ZERO

\* C22: depenetrate called with an empty contact list returns the zero
\* displacement, whatever the config and the length unit.
C22_EmptyIsZero ==
    (Returned("depenetrate") /\ prim.intersections = <<>>) => prim.out = ZERO

C22_Witness ==
    /\ Returned("depenetrate")
    /\ prim.intersections = <<>>
    /\ prim.config # DefaultDepenetrationConfig
    /\ prim.out = ZERO

\* C23: once the per-contact callback has returned false in an iteration,
\* the enumeration hands out nothing more (no on_hit call, no further plane
\* or penetration), and the iteration still goes on to its depenetration and
\* clipping, after which it sweeps again or returns.
C23_AbortsEnumerationOnly ==
    [][(obs.stopped /\ pc = "contacts") =>
          \/ /\ pc' = "contacts"
             /\ planes' = planes
             /\ penetrations' = penetrations
             /\ obs'.on_hit_calls = obs.on_hit_calls
          \/ /\ pc' \in {"sweep", "done"}
             /\ obs'.depenetrations = obs.depenetrations + 1
             /\ obs'.clips = obs.clips + 1]_vars

\* C24: when a sweep of length d is blocked, the step that moves up to the
\* hit advances the position by the hit's safe distance s along the sweep
\* direction, with 0 <= s <= d, and replaces the remaining time t by
\* t - t * (s / d); the remaining time never increases during a call and
\* stays between 0 and delta_time.
C24_SafeAdvance ==
    [][/\ (pc = "sweep" /\ pc' = "contacts") =>
              LET along == NewAndLength(VScale(time_left, velocity))
                  s == sweep_hit'.distance
              IN  /\ 0 <= s
                  /\ s <= along.length
                  /\ position' = VAdd(position, VScale(s, along.dir))
                  /\ time_left' = time_left - Mul(time_left, Div(s, along.length))
       /\ (pc # "idle" /\ pc' # "idle") => time_left' <= time_left
       /\ 0 <= time_left'
       /\ time_left' <= call'.delta_time]_vars

\* A blocked, non-trapped sweep has moved the shape part of the way and left
\* part of the time.
C24_Witness ==
    /\ pc = "contacts"
    /\ obs.time_of_impact > 0
    /\ sweep_hit.distance > 0
    /\ time_left > 0
    /\ time_left < call.delta_time

\* A step in which the callback accepted the contact at the head of the
\* enumeration: its plane joined the clipping planes.
AcceptedContact ==
    /\ pc = "contacts"
    /\ pending # <<>>
    /\ pending' = Tail(pending)
    /\ Len(planes') = Len(planes) + 1

\* The step recorded the contact for the iteration's depenetration.
RecordedContact == Len(penetrations') = Len(penetrations) + 1

\* C25 as stated: an accepted contact is recorded for the iteration's
\* depenetration exactly when its penetration is positive; a contact with
\* penetration <= 0 only contributes a clipping plane.
C25_RecordedIffPenetrating ==
    [][AcceptedContact =>
          (RecordedContact <=> Head(pending).penetration > 0)]_vars

\* C25 amended: an accepted contact is recorded, with the depth
\* penetration + skin_width, exactly when the shape is closer to the collider
\* than skin_width (penetration + skin_width > 0); a contact at skin_width or
\* farther only contributes a clipping plane.
C25_RecordedIffWithinSkin ==
    [][AcceptedContact =>
          LET contact_point == Head(pending)
              total_penetration == contact_point.penetration + call.config.skin_width
          IN  /\ RecordedContact <=> total_penetration > 0
              /\ RecordedContact =>
                     penetrations'[Len(penetrations')][2] = total_penetration
              /\ ~RecordedContact => penetrations' = penetrations]_vars

\* A contact that does not penetrate, 0.003 short of touching with a skin
\* width of 0.01, has been recorded with the depth 0.007.
C25_Witness ==
    /\ pc = "contacts"
    /\ Len(planes) = 1
    /\ Len(penetrations) = 1
    /\ penetrations[1][2] > 0
    /\ penetrations[1][2] < call.config.skin_width

\* C26: the entity handed to on_hit with a contact is the entity of the
\* collider that produced that contact.
C26_EntityOfContact ==
    obs.on_hit_calls > 0 => obs.on_hit_entity = obs.contact_entity

\* C27: the projected velocity a call returns never points against the
\* velocity the call was given: their dot product is above -DOT_EPSILON,
\* whatever the contacts were and whatever on_hit did.
C27_NeverAgainstInput ==
    pc = "done" => Dot(Output.projected_velocity, call.velocity) > -DOT_EPSILON

\* A call whose callback steered the velocity so that the clipped velocity
\* pointed against the input, and which returns zero for it.
C27_Witness ==
    /\ pc = "done"
    /\ call.on_hit = "steer"
    /\ call.velocity # ZERO
    /\ obs.against
    /\ Output.projected_velocity = ZERO

\* C28: project_velocity is idempotent: handed its own result with the same
\* normals, it returns that result unchanged.
C28_Idempotent ==
    (Returned("project_velocity") /\ prim.of_result) => prim.out = prim.v

\* The second call was handed a velocity the first had clipped onto a plane.
C28_Witness ==
    /\ Returned("project_velocity")
    /\ prim.of_result
    /\ prim.v # ZERO
    /\ ~InsideCone_no_epsilon(prim.v, prim.normals)
    /\ \E i \in DOMAIN prim.normals : Dot(prim.v, prim.normals[i]) = 0

\* A run of tick_pause_timer has just triggered PauseEvent::Disable, and the
\* game runs.
Resumed == timer_obs.tick_disabled /\ virtual_time.relative_speed = 1

\* A run of tick_pause_timer that finds the stop timer paused leaves the
\* timer and the game's speed alone and triggers nothing.
PausedTicksIdle ==
    [][(stop_timer.paused /\ timer_obs'.frame # timer_obs.frame) =>
          /\ stop_timer' = stop_timer
          /\ virtual_time' = virtual_time
          /\ ~timer_obs'.tick_disabled]_vars

\* C29 as stated: after a TimerEvent::Start, unless a TimerEvent::Pause or
\* TimerEvent::Stop follows, a run of tick_pause_timer eventually triggers
\* PauseEvent::Disable and the game resumes; and ticks of a paused stop timer
\* neither advance it nor trigger PauseEvent::Disable.
C29_ResumesAfterStart ==
    /\ [](timer_obs.last = "Start" =>
             <>(Resumed \/ timer_obs.last \in {"Pause", "Stop"}))
    /\ PausedTicksIdle

\* C29 amended: after a TimerEvent::Start, unless a TimerEvent::Pause, a
\* TimerEvent::Stop or another TimerEvent::Start follows, a run of
\* tick_pause_timer eventually triggers PauseEvent::Disable and the game
\* resumes; and ticks of a paused stop timer neither advance it nor trigger
\* PauseEvent::Disable.
C29_ResumesAfterLastStart ==
    /\ \A g \in {0, 1} :
           [](timer_obs.last = "Start" /\ timer_obs.generation = g =>
                <>(\/ Resumed
                   \/ timer_obs.last \in {"Pause", "Stop"}
                   \/ timer_obs.generation # g))
    /\ PausedTicksIdle

\* A countdown of the longest duration has run out and the tick that ended
\* it has resumed the game.
C29_Witness ==
    /\ Resumed
    /\ stop_timer.timer.duration = MaxDuration
    /\ stop_timer.timer.elapsed = MaxDuration
    /\ ~stop_timer.paused

\* C30: on both axes the camera's ClampPosition has min <= max, whatever the
\* flags, the axes and the positions of the target, so that follow_target
\* never calls clamp with min > max.
C30_ClampRangeValid ==
    camera.spawned =>
        /\ \A i \in 1 .. 2 : camera.clamp_pos.min[i] <= camera.clamp_pos.max[i]
        /\ ~camera.panicked

====
